---- MODULE Spec2Model ----
(***************************************************************************)
(* A model of modvis.py, the module-level import analyzer of pyan.         *)
(*                                                                         *)
(* Python strings are modelled as sequences of one-character strings, so   *)
(* "a.b" is <<"a", ".", "b">>: str.rfind, str.count, slicing, str.join and *)
(* str.replace are computed character by character as the code does.       *)
(*                                                                         *)
(* Four specifications share the variables:                                *)
(*   SpecResolve  resolve() applied to bounded inputs                      *)
(*   SpecCollect  ImportVisitor.analyze and the two import handlers        *)
(*   SpecCycles   ImportVisitor.detect_cycles, one step per walk() call    *)
(*   SpecGraph    ImportVisitor.prepare_graph and its sanity check         *)
(***************************************************************************)
EXTENDS Integers, Sequences, FiniteSets, TLC

VARIABLES
    pc,              \* position of the running operation
    args,            \* SpecResolve: [current_module, target_module, level]
    result,          \* SpecResolve: what resolve returned or raised
    modules,         \* self.modules: modname -> set of dependencies
    fullpaths,       \* self.fullpaths: modname -> fullpath
    fullpath,        \* analyze: the file the loop is at
    current_module,  \* self.current_module
    node,            \* the import node the last handler was called with
    imported,        \* history: <<module of the file, resolved target>> of every import handled
    nfiles,          \* files opened so far
    nstmts,          \* import statements visited so far
    roots,           \* detect_cycles: the keys the outer loop has yet to walk
    seen,            \* detect_cycles: the seen set of the current root
    trace,           \* detect_cycles: the trace list shared by the walk
    stack,           \* detect_cycles: walk() frames, [m, deps yet to iterate]
    cycles,          \* detect_cycles: the report
    nodes,           \* self.nodes
    uses_edges       \* self.uses_edges

vars == <<pc, args, result, modules, fullpaths, fullpath, current_module, node, imported,
          nfiles, nstmts, roots, seen, trace, stack, cycles, nodes, uses_edges>>

collectVars == <<modules, fullpaths, fullpath, current_module, node, imported, nfiles, nstmts>>
resolveVars == <<args, result>>
cycleVars == <<roots, seen, trace, stack, cycles>>
graphVars == <<nodes, uses_edges>>

----------------------------------------------------------------------------
(* Bounds *)

\* longest current module name, in segments, handed to resolve in SpecResolve
\* (there the levels range over -1 .. MaxDepth + 1)
MaxDepth == 3
\* largest relative import level in a file (the levels range over -1 .. MaxLevel)
MaxLevel == 3
\* most names in one import statement
MaxNames == 2
\* most files one analyze run opens
MaxFiles == 2
\* most import statements one analyze run visits
MaxStmts == 2
\* most import targets in one module graph of SpecCycles and SpecGraph
MaxEdges == 4
\* deepest walk() recursion the model follows
MaxStack == 6

----------------------------------------------------------------------------
(* Strings *)

Dot == "."
Sep == "/"
EmptyStr == <<>>
DotPy == <<".", "p", "y">>
DotInit == <<".", "_", "_", "i", "n", "i", "t", "_", "_">>

Max(S) == CHOOSE x \in S : \A y \in S : y <= x
Min(S) == CHOOSE x \in S : \A y \in S : x <= y

\* s.count(c)
Count(s, c) == Cardinality({i \in 1..Len(s) : s[i] = c})

\* s.rfind(c): the 0-based index of the last c, -1 when there is none
RFind(s, c) ==
    LET I == {i \in 1..Len(s) : s[i] = c}
    IN  IF I = {} THEN -1 ELSE Max(I) - 1

\* s[:k] for 0 <= k
Prefix(s, k) == SubSeq(s, 1, Min({k, Len(s)}))

\* s[k:] for 0 <= k
Suffix(s, k) == SubSeq(s, k + 1, Len(s))

StartsWith(s, p) == Len(s) >= Len(p) /\ SubSeq(s, 1, Len(p)) = p

EndsWith(s, p) == Len(s) >= Len(p) /\ SubSeq(s, Len(s) - Len(p) + 1, Len(s)) = p

\* s.replace(a, b) for single characters
Replace(s, a, b) == [i \in 1..Len(s) |-> IF s[i] = a THEN b ELSE s[i]]

\* '.'.join((x, y))
JoinDot(x, y) == x \o <<Dot>> \o y

----------------------------------------------------------------------------
(* Module naming *)

Raised(what) == [raised |-> TRUE, value |-> what]
Returned(v) == [raised |-> FALSE, value |-> v]
ValueError == <<"V", "a", "l", "u", "e", "E", "r", "r", "o", "r">>

filename_to_module_name(path) ==
    IF ~EndsWith(path, DotPy)
    THEN Raised(ValueError)
    ELSE LET rel == <<Dot, Sep>>
             p1 == IF StartsWith(path, rel) THEN Suffix(path, Len(rel)) ELSE path
             p2 == Prefix(p1, Len(p1) - 3)
         IN  Returned(Replace(p2, Sep, Dot))

split_module_name(m) ==
    LET k == RFind(m, Dot)
    IN  IF k = -1 THEN <<EmptyStr, m>> ELSE <<Prefix(m, k), Suffix(m, k + 1)>>

\* os.path.dirname
dirname(path) ==
    LET k == RFind(path, Sep)
    IN  IF k = -1 THEN EmptyStr ELSE Prefix(path, k)

----------------------------------------------------------------------------
(* Import resolver *)

\* the loop of resolve: truncate base at its last dot `n` times, and stop
\* with the empty string once no dot is left
RECURSIVE StripLevels(_, _)
StripLevels(base, n) ==
    IF n = 0 THEN base
    ELSE LET k == RFind(base, Dot)
         IN  IF k = -1 THEN EmptyStr ELSE StripLevels(Prefix(base, k), n - 1)

\* a slip in the bound: the "+ 1" left out
LevelTooLargeOffByOne(cur, level) == level > Count(cur, Dot)

LevelTooLarge(cur, level) == level > Count(cur, Dot) + 1

resolve(cur, target_module, level) ==
    IF level < 0 THEN Raised(ValueError)
    ELSE IF level = 0 THEN Returned(target_module)
    ELSE IF LevelTooLarge(cur, level) THEN Raised(ValueError)
    ELSE Returned(JoinDot(StripLevels(cur, level), target_module))

----------------------------------------------------------------------------
(* Input universes *)

Letters == {"a", "b", "c"}

\* dotted names of exactly n segments, each segment one letter
RECURSIVE NamesOfDepth(_)
NamesOfDepth(n) ==
    IF n = 1 THEN {<<l>> : l \in Letters}
    ELSE {JoinDot(x, <<l>>) : x \in NamesOfDepth(n - 1), l \in Letters}

CurrentModules == UNION {NamesOfDepth(n) : n \in 1..MaxDepth}
ResolveTargets == {<<"d">>, <<"d", ".", "e">>}
ResolveLevels == -1..(MaxDepth + 1)

\* the files an analyze run may be given
Paths == {<<"a", ".", "p", "y">>,
          <<".", "/", "a", ".", "p", "y">>,
          <<"p", "/", "b", ".", "p", "y">>,
          <<"a", ".", "t", "x", "t">>}
\* the names import statements mention
Targets == {<<"a">>, <<"b">>}
NameLists == UNION {[1..n -> Targets] : n \in 1..MaxNames}
\* the symbols `from module import ...` names
Symbols == {<<"f">>}
SymbolLists == UNION {[1..n -> Symbols] : n \in 1..MaxNames}
Levels == -1..MaxLevel

ImportNodes == [kind : {"Import"}, module : {EmptyStr}, level : {0}, names : NameLists]
ImportFromNodes ==
    [kind : {"ImportFrom"}, module : Targets, level : Levels, names : SymbolLists]
    \cup [kind : {"ImportFrom"}, module : {EmptyStr}, level : Levels, names : NameLists]
NoNode == [kind |-> "None", module |-> EmptyStr, level |-> 0, names |-> <<>>]

----------------------------------------------------------------------------
(* Mappings with a growing key set (Python dicts) *)

EmptyMap == [k \in {} |-> {}]
Put(f, k, v) == [x \in DOMAIN f \cup {k} |-> IF x = k THEN v ELSE f[x]]

----------------------------------------------------------------------------
(* SpecResolve: resolve applied to one triple of arguments *)

InitResolve ==
    /\ pc = "resolve_call"
    /\ args \in [current_module : CurrentModules, target_module : ResolveTargets, level : ResolveLevels]
    /\ result = Returned(EmptyStr)
    /\ modules = EmptyMap /\ fullpaths = EmptyMap /\ fullpath = EmptyStr /\ current_module = EmptyStr
    /\ node = NoNode /\ imported = {} /\ nfiles = 0 /\ nstmts = 0
    /\ roots = <<>> /\ seen = {} /\ trace = <<>> /\ stack = <<>> /\ cycles = <<>>
    /\ nodes = EmptyMap /\ uses_edges = EmptyMap

Resolve ==
    /\ pc = "resolve_call"
    /\ result' = resolve(args.current_module, args.target_module, args.level)
    /\ pc' = "resolve_done"
    /\ UNCHANGED <<args, collectVars, cycleVars, graphVars>>

NextResolve == Resolve

SpecResolve == InitResolve /\ [][NextResolve]_vars

----------------------------------------------------------------------------
(* SpecCollect: the dependency collector *)

\* a slip: the possible-package marker is not added
add_dependency_no_marker(mods, m, target_module) ==
    LET m1 == IF m \notin DOMAIN mods THEN Put(mods, m, {}) ELSE mods
    IN  Put(m1, m, m1[m] \cup {target_module})

\* a slip: the set of the module is assigned, not added to
add_dependency_overwrite(mods, m, target_module) ==
    Put(mods, m, {target_module, target_module \o DotInit})

\* add_dependency, as a function of self.modules and self.current_module
add_dependency(mods, m, target_module) ==
    LET m1 == IF m \notin DOMAIN mods THEN Put(mods, m, {}) ELSE mods
        m2 == Put(m1, m, m1[m] \cup {target_module})
    IN  Put(m2, m, m2[m] \cup {target_module \o DotInit})

\* the loop of visit_Import over node.names
RECURSIVE ImportEach(_, _, _)
ImportEach(mods, m, names) ==
    IF names = <<>> THEN mods
    ELSE ImportEach(add_dependency(mods, m, Head(names)), m, Tail(names))

\* the branch of visit_ImportFrom taken when node.module is set
FromModule(mods, m, n) ==
    LET absname == resolve(m, n.module, n.level)
    IN  IF absname.raised
        THEN [raised |-> TRUE, mods |-> mods]
        ELSE [raised |-> FALSE, mods |-> add_dependency(mods, m, absname.value)]

\* the loop of visit_ImportFrom over node.names, when node.module is not set;
\* an exception leaves self.modules as the earlier iterations made it
RECURSIVE FromNames(_, _, _, _)
FromNames(mods, m, level, names) ==
    IF names = <<>> THEN [raised |-> FALSE, mods |-> mods]
    ELSE LET absname == resolve(m, Head(names), level)
         IN  IF absname.raised
             THEN [raised |-> TRUE, mods |-> mods]
             ELSE FromNames(add_dependency(mods, m, absname.value), m, level, Tail(names))

\* history: the targets the handler of node n resolves in the file of module m
ImportTargets(m, n) ==
    IF n.kind = "Import" THEN {n.names[i] : i \in 1..Len(n.names)}
    ELSE IF n.module # EmptyStr THEN {resolve(m, n.module, n.level).value}
    ELSE {resolve(m, n.names[i], n.level).value : i \in 1..Len(n.names)}

\* history: what the statement n of the file `path` imports
ImportFacts(path, n) ==
    LET m == filename_to_module_name(path).value
    IN  {<<m, t>> : t \in ImportTargets(m, n)}

InitCollect ==
    /\ pc = "analyze"
    /\ modules = EmptyMap /\ fullpaths = EmptyMap /\ fullpath = EmptyStr /\ current_module = EmptyStr
    /\ node = NoNode /\ imported = {} /\ nfiles = 0 /\ nstmts = 0
    /\ args = [current_module |-> EmptyStr, target_module |-> EmptyStr, level |-> 0]
    /\ result = Returned(EmptyStr)
    /\ roots = <<>> /\ seen = {} /\ trace = <<>> /\ stack = <<>> /\ cycles = <<>>
    /\ nodes = EmptyMap /\ uses_edges = EmptyMap

\* one iteration of the loop of analyze, up to the call of self.visit
AnalyzeFile(path) ==
    /\ pc = "analyze"
    /\ nfiles < MaxFiles
    /\ nfiles' = nfiles + 1
    /\ fullpath' = path
    /\ node' = NoNode
    /\ LET m == filename_to_module_name(path)
       IN  IF m.raised
           THEN /\ pc' = "raised"
                /\ UNCHANGED <<current_module, fullpaths>>
           ELSE /\ pc' = "visit"
                /\ current_module' = m.value
                /\ fullpaths' = Put(fullpaths, m.value, path)
    /\ UNCHANGED <<modules, imported, nstmts, resolveVars, cycleVars, graphVars>>

visit_Import(n) ==
    /\ pc = "visit"
    /\ nstmts < MaxStmts
    /\ nstmts' = nstmts + 1
    /\ node' = n
    /\ modules' = ImportEach(modules, current_module, n.names)
    /\ imported' = imported \cup ImportFacts(fullpath, n)
    /\ UNCHANGED <<pc, fullpaths, fullpath, current_module, nfiles, resolveVars, cycleVars,
                   graphVars>>

visit_ImportFrom(n) ==
    /\ pc = "visit"
    /\ nstmts < MaxStmts
    /\ nstmts' = nstmts + 1
    /\ node' = n
    /\ LET r == IF n.module # EmptyStr
                THEN FromModule(modules, current_module, n)
                ELSE FromNames(modules, current_module, n.level, n.names)
       IN  /\ modules' = r.mods
           /\ imported' = IF r.raised THEN imported ELSE imported \cup ImportFacts(fullpath, n)
           /\ pc' = IF r.raised THEN "raised" ELSE "visit"
    /\ UNCHANGED <<fullpaths, fullpath, current_module, nfiles, resolveVars, cycleVars,
                   graphVars>>

\* self.visit returns: the file holds no further import
EndVisit ==
    /\ pc = "visit"
    /\ pc' = "analyze"
    /\ UNCHANGED <<collectVars, resolveVars, cycleVars, graphVars>>

\* the loop of analyze is exhausted
EndAnalyze ==
    /\ pc = "analyze"
    /\ pc' = "analyzed"
    /\ UNCHANGED <<collectVars, resolveVars, cycleVars, graphVars>>

NextCollect ==
    \/ \E path \in Paths : AnalyzeFile(path)
    \/ \E n \in ImportNodes : visit_Import(n)
    \/ \E n \in ImportFromNodes : visit_ImportFrom(n)
    \/ EndVisit
    \/ EndAnalyze

SpecCollect == InitCollect /\ [][NextCollect]_vars

----------------------------------------------------------------------------
(* Module graphs for the postprocessing steps *)

\* files whose modules may be keys of the graph, in the order analyze reads
\* them (the order of the keys of self.modules)
KeyPaths == << <<"a", ".", "p", "y">>,
               <<".", "/", "b", ".", "p", "y">>,
               <<"p", "/", "c", ".", "p", "y">> >>
KeyName(i) == filename_to_module_name(KeyPaths[i]).value
KeyNames == {KeyName(i) : i \in 1..Len(KeyPaths)}
\* a module no file of the run defines
External == <<"o", "s">>
TargetNames == KeyNames \cup {External}

RECURSIVE SumOver(_, _)
SumOver(f, S) ==
    IF S = {} THEN 0
    ELSE LET x == CHOOSE y \in S : TRUE
         IN  Cardinality(f[x]) + SumOver(f, S \ {x})

\* what each of the first k files imports: at least one target per file,
\* since add_dependency is what creates a key
ImportTables ==
    UNION {{g \in [{KeyName(i) : i \in 1..k} -> (SUBSET TargetNames) \ {{}}] :
              SumOver(g, DOMAIN g) <= MaxEdges} : k \in 0..Len(KeyPaths)}

\* self.modules after a collection that resolved the imports of table g
GraphOf(g) == [m \in DOMAIN g |-> UNION {{t, t \o DotInit} : t \in g[m]}]

\* self.fullpaths after files 1..k were read
PathsOf(I) == [m \in {KeyName(i) : i \in I} |-> KeyPaths[CHOOSE i \in I : KeyName(i) = m]]

\* the keys of self.modules in insertion order
RECURSIVE KeysInOrder(_, _)
KeysInOrder(mods, i) ==
    IF i > Len(KeyPaths) THEN <<>>
    ELSE (IF KeyName(i) \in DOMAIN mods THEN <<KeyName(i)>> ELSE <<>>)
         \o KeysInOrder(mods, i + 1)

InitPost(start) ==
    /\ pc = start
    /\ \E g \in ImportTables : modules = GraphOf(g)
    /\ \E I \in SUBSET (1..Len(KeyPaths)) :
          /\ DOMAIN modules \subseteq {KeyName(i) : i \in I}
          /\ fullpaths = PathsOf(I)
    /\ fullpath = EmptyStr /\ current_module = EmptyStr
    /\ node = NoNode /\ imported = {} /\ nfiles = 0 /\ nstmts = 0
    /\ args = [current_module |-> EmptyStr, target_module |-> EmptyStr, level |-> 0]
    /\ result = Returned(EmptyStr)
    /\ roots = KeysInOrder(modules, 1)
    /\ seen = {} /\ trace = <<>> /\ stack = <<>> /\ cycles = <<>>
    /\ nodes = EmptyMap /\ uses_edges = EmptyMap

----------------------------------------------------------------------------
(* SpecCycles: detect_cycles *)

\* a slip: the test for a revisit never fires
RevisitedNever(m, s) == FALSE

\* `m in seen`, the test that raises CycleDetected
Revisited(m, s) == m \in s

\* names.index(offender)
Index(names, offender) == Min({i \in 1..Len(names) : names[i] = offender}) - 1

\* the except clause: split the trace at the first occurrence of its last name
ReportEntry(names) ==
    LET offender == names[Len(names)]
        k == Index(names, offender)
    IN  <<Prefix(names, k), Suffix(names, k)>>

\* trace.append(m) on the list walk was given
TraceAppend(tr, m) == Append(tr, m)

Frame(m) == [m |-> m, deps |-> modules[m]]

\* the outer loop of detect_cycles takes the next root and calls walk(root):
\* a fresh seen set and, since trace is None, a fresh trace
WalkRoot ==
    /\ pc = "roots"
    /\ roots # <<>>
    /\ LET root == Head(roots)
       IN  /\ roots' = Tail(roots)
           /\ trace' = TraceAppend(<<>>, root)
           /\ seen' = {root}
           /\ stack' = <<Frame(root)>>
           /\ pc' = "walk"
    /\ UNCHANGED <<cycles, modules, fullpaths, fullpath, current_module, node, imported, nfiles, nstmts,
                   resolveVars, graphVars>>

\* the loop `for d in deps` of the innermost walk takes its next element d (a
\* set: in any order) and calls walk(d, trace)
WalkDep(d) ==
    /\ pc = "walk"
    /\ stack # <<>>
    /\ Len(stack) <= MaxStack
    /\ d \in stack[Len(stack)].deps
    /\ LET top == Len(stack)
           rest == [stack EXCEPT ![top].deps = @ \ {d}]
       IN  IF d \notin DOMAIN modules
           THEN /\ stack' = rest
                /\ UNCHANGED <<trace, seen, cycles, pc>>
           ELSE IF Revisited(d, seen)
           THEN /\ trace' = TraceAppend(trace, d)
                /\ cycles' = Append(cycles, ReportEntry(trace'))
                /\ stack' = <<>>
                /\ pc' = "roots"
                /\ UNCHANGED seen
           ELSE /\ trace' = TraceAppend(trace, d)
                /\ seen' = seen \cup {d}
                /\ stack' = Append(rest, Frame(d))
                /\ UNCHANGED <<cycles, pc>>
    /\ UNCHANGED <<roots, modules, fullpaths, fullpath, current_module, node, imported, nfiles, nstmts,
                   resolveVars, graphVars>>

\* the loop of the innermost walk is exhausted: walk returns, and the walk of
\* the root returns to the outer loop
WalkReturn ==
    /\ pc = "walk"
    /\ stack # <<>>
    /\ stack[Len(stack)].deps = {}
    /\ stack' = SubSeq(stack, 1, Len(stack) - 1)
    /\ pc' = IF Len(stack) = 1 THEN "roots" ELSE "walk"
    /\ UNCHANGED <<roots, seen, trace, cycles, modules, fullpaths, fullpath,
                   current_module, node, imported, nfiles, nstmts, resolveVars, graphVars>>

\* the outer loop is exhausted: return cycles
CyclesReturn ==
    /\ pc = "roots"
    /\ roots = <<>>
    /\ pc' = "cycles_done"
    /\ UNCHANGED <<collectVars, resolveVars, cycleVars, graphVars>>

NextCycles ==
    \/ WalkRoot
    \/ \E d \in TargetNames \cup {t \o DotInit : t \in TargetNames} : WalkDep(d)
    \/ WalkReturn
    \/ CyclesReturn

InitCycles == InitPost("roots") /\ DOMAIN fullpaths = DOMAIN modules

SpecCycles == InitCycles /\ [][NextCycles]_vars

\* the interpreter keeps running the one thread of detect_cycles
SpecCyclesFair == SpecCycles /\ WF_vars(NextCycles)

----------------------------------------------------------------------------
(* SpecGraph: prepare_graph *)

None == <<>>

\* pyan.node.Node(namespace=ns, name=mod, ast_node=None, filename=package,
\* flavor=Flavor.MODULE), with n.defined = True
Node(ns, mod, package) ==
    [namespace |-> ns, name |-> mod, filename |-> package, defined |-> TRUE,
     flavor |-> "MODULE"]

\* Node.get_name: the qualified name of the node
get_name(n) == IF n.namespace = EmptyStr THEN n.name ELSE JoinDot(n.namespace, n.name)

\* the body of the first loop of prepare_graph, for the key m
NodeFor(m, paths) ==
    LET s == split_module_name(m)
    IN  Node(s[1], s[2], dirname(paths[m]))

\* the first loop of prepare_graph: self.nodes[m] = [n] for every key
MakeNodes(mods, paths) == [m \in DOMAIN mods |-> <<NodeFor(m, paths)>>]

\* dict.get
Get(f, k) == IF k \in DOMAIN f THEN f[k] ELSE None

\* a slip: the target set of the source node is assigned, not added to
add_uses_edge_overwrite(edges, from_node, to_node) == Put(edges, from_node, {to_node})

add_uses_edge(edges, from_node, to_node) ==
    LET e1 == IF from_node \notin DOMAIN edges THEN Put(edges, from_node, {}) ELSE edges
    IN  Put(e1, from_node, e1[from_node] \cup {to_node})

\* the second loop of prepare_graph over the pairs (m, d), d in modules[m]
RECURSIVE MakeEdges(_, _, _)
MakeEdges(edges, pairs, ns) ==
    IF pairs = {} THEN edges
    ELSE LET p == CHOOSE q \in pairs : TRUE
             n_from == Get(ns, p[1])
             n_to == Get(ns, p[2])
             e1 == IF n_from # None /\ n_to # None
                   THEN add_uses_edge(edges, n_from[1], n_to[1])
                   ELSE edges
         IN  MakeEdges(e1, pairs \ {p}, ns)

\* the pairs (m, d) the two nested loops go through
DepPairs(mods) == UNION {{<<m, d>> : d \in mods[m]} : m \in DOMAIN mods}

\* the assertions that end prepare_graph
SanityCheck(edges, ns) ==
    \A m \in DOMAIN edges :
        /\ get_name(m) \in DOMAIN ns
        /\ \A d \in edges[m] : get_name(d) \in DOMAIN ns

InitGraph == InitPost("prepare_graph")

prepare_graph ==
    /\ pc = "prepare_graph"
    /\ IF \E m \in DOMAIN modules : m \notin DOMAIN fullpaths
       THEN \* KeyError
            /\ pc' = "raised"
            /\ nodes' = EmptyMap
            /\ uses_edges' = EmptyMap
       ELSE /\ nodes' = MakeNodes(modules, fullpaths)
            /\ uses_edges' = MakeEdges(EmptyMap, DepPairs(modules), nodes')
            /\ pc' = IF SanityCheck(uses_edges', nodes') THEN "graph_done" ELSE "raised"
    /\ UNCHANGED <<collectVars, resolveVars, cycleVars>>

NextGraph == prepare_graph

SpecGraph == InitGraph /\ [][NextGraph]_vars

----------------------------------------------------------------------------
(* Properties of resolve (SpecResolve) *)

\* the dot-separated segments of a name
RECURSIVE Segments(_)
Segments(name) ==
    LET k == RFind(name, Dot)
    IN  IF k = -1 THEN <<name>>
        ELSE Append(Segments(Prefix(name, k)), Suffix(name, k + 1))

RECURSIVE JoinSegments(_)
JoinSegments(segs) ==
    IF Len(segs) = 1 THEN segs[1]
    ELSE JoinDot(JoinSegments(SubSeq(segs, 1, Len(segs) - 1)), segs[Len(segs)])

\* namespace depth: the number of segments of a module name
Depth(name) == Len(Segments(name))

\* the module name without its last `level` segments, joined to the target by
\* one dot, and the target alone when no segment is left
RelativeName(cur, target, level) ==
    LET kept == SubSeq(Segments(cur), 1, Depth(cur) - level)
    IN  IF kept = <<>> THEN target ELSE JoinDot(JoinSegments(kept), target)

ABC == <<"a", ".", "b", ".", "c">>

\* C3: resolve(cur, target, 0) is target, and for 1 <= level <= depth it is
\* cur without its last `level` segments joined to target by one dot, with no
\* leading dot when every segment is removed; resolve("a.b.c", "d", 1..3) are
\* "a.b.d", "a.d" and "d".
C3_ResolveResult ==
    pc = "resolve_done" =>
        /\ args.level = 0 => result = Returned(args.target_module)
        /\ (1 <= args.level /\ args.level <= Depth(args.current_module)) =>
              result = Returned(RelativeName(args.current_module, args.target_module, args.level))
        /\ (args.current_module = ABC /\ args.target_module = <<"d">>) =>
              /\ args.level = 1 => result = Returned(<<"a", ".", "b", ".", "d">>)
              /\ args.level = 2 => result = Returned(<<"a", ".", "d">>)
              /\ args.level = 3 => result = Returned(<<"d">>)

----------------------------------------------------------------------------
(* Properties of the collector (SpecCollect) *)

\* C4: between files and after the last one, the keys of self.modules are
\* exactly the modules that have a record in self.fullpaths, files without
\* any import included.
C4_KeysAreRecords ==
    pc \in {"analyze", "analyzed"} => DOMAIN modules = DOMAIN fullpaths

C7_AllImportsRecorded ==
    \A p \in imported :
        /\ p[1] \in DOMAIN modules
        /\ p[2] \in modules[p[1]]
        /\ (p[2] \o DotInit) \in modules[p[1]]

C7_FromModuleAddsTwo ==
    (node'.kind = "ImportFrom" /\ node'.module # EmptyStr /\ nstmts' # nstmts /\ pc' # "raised")
    => LET t == resolve(current_module, node'.module, node'.level).value
       IN  /\ DOMAIN modules' = DOMAIN modules \cup {current_module}
           /\ modules'[current_module] =
                 (IF current_module \in DOMAIN modules THEN modules[current_module] ELSE {})
                 \cup {t, t \o DotInit}
           /\ \A m \in DOMAIN modules \ {current_module} : modules'[m] = modules[m]

\* C7: every resolved target t of every import handled in module m, and
\* t + ".__init__", are in modules[m]; a from-import with a module reference
\* adds the resolved module and its marker and nothing else, whatever the
\* symbols it names.
C7_TargetsAndMarkers == []C7_AllImportsRecorded /\ [][C7_FromModuleAddsTwo]_vars

C7_Witness ==
    /\ pc = "analyzed"
    /\ node.kind = "ImportFrom" /\ node.module # EmptyStr /\ Len(node.names) = 2
    /\ node.level = 1
    /\ Cardinality(imported) >= 2

InvalidLevel(n) == n.level < 0 \/ n.level > Depth(current_module)

C8_RaisesIffInvalid == node.kind = "ImportFrom" => (pc = "raised" <=> InvalidLevel(node))

C8_NothingAddedOnFailure ==
    (pc' = "raised" /\ node'.kind = "ImportFrom") => modules' = modules

\* C8: a from-import fails in resolve exactly when its level is negative or
\* exceeds the namespace depth of the current module, and a failing
\* from-import has added no dependency to the graph.
C8_InvalidLevel == []C8_RaisesIffInvalid /\ [][C8_NothingAddedOnFailure]_vars

C8_Witness ==
    /\ pc = "raised"
    /\ node.kind = "ImportFrom" /\ node.module = EmptyStr /\ Len(node.names) = 2
    /\ node.level = Depth(current_module) + 1
    /\ modules # EmptyMap

\* the graph as a function of the set of import facts alone
GraphOfFacts(facts) ==
    [m \in {p[1] : p \in facts} |->
        UNION {{p[2], p[2] \o DotInit} : p \in {q \in facts : q[1] = m}}]

C9_GraphOfFactSet == modules = GraphOfFacts(imported)

C9_OnlyGrows ==
    /\ DOMAIN modules \subseteq DOMAIN modules'
    /\ DOMAIN modules' \subseteq DOMAIN modules \cup {current_module}
    /\ \A m \in DOMAIN modules :
          /\ modules[m] \subseteq modules'[m]
          /\ m # current_module => modules'[m] = modules[m]

\* C9: the graph is determined by the set of imports handled, whatever the
\* order of the files and of their statements; a step only adds elements to
\* the set of the current module and leaves every other set as it was.
C9_OrderIndependent == []C9_GraphOfFactSet /\ [][C9_OnlyGrows]_vars

C9_Witness ==
    /\ pc = "analyzed"
    /\ Cardinality(DOMAIN modules) = 2
    /\ \E m \in DOMAIN modules : Cardinality(modules[m]) >= 4

----------------------------------------------------------------------------
(* Properties of detect_cycles (SpecCycles, SpecCyclesFair) *)

\* the keys the modules of S depend on
Successors(S) == {d \in DOMAIN modules : \E m \in S \cap DOMAIN modules : d \in modules[m]}

RECURSIVE Closure(_)
Closure(S) == IF Successors(S) \subseteq S THEN S ELSE Closure(S \cup Successors(S))

\* k lies on a dependency cycle among the keys
OnCycle(k) == k \in Closure(Successors({k}))

CycleReachableFrom(root) == \E k \in Closure({root}) : OnCycle(k)

Acyclic == \A k \in DOMAIN modules : ~OnCycle(k)

\* C1: on a graph without a dependency cycle among its keys the report is
\* empty, also when a module is reachable over two paths.
C1_NoFalsePositive == (pc = "cycles_done" /\ Acyclic) => cycles = <<>>

IsCycle(c) ==
    /\ Len(c) >= 2
    /\ c[1] = c[Len(c)]
    /\ \A i \in 1..(Len(c) - 1) : c[i] \in DOMAIN modules /\ c[i + 1] \in modules[c[i]]

\* C2: every reported cycle begins and ends at the same module and follows
\* dependency edges, and during a walk the trace is the current depth-first
\* path.
C2_CyclesFollowEdges ==
    /\ \A i \in 1..Len(cycles) : IsCycle(cycles[i][2])
    /\ pc = "walk" => trace = [i \in 1..Len(stack) |-> stack[i].m]

EntriesFrom(root) == {i \in 1..Len(cycles) : (cycles[i][1] \o cycles[i][2])[1] = root}

ModA == KeyName(1)
ModB == KeyName(2)

\* C6: a root reports exactly one entry when a cycle is reachable from it,
\* and none otherwise; {a:{b}, b:{a}} gives [a, b, a] for a and [b, a, b]
\* for b, and a self-import gives prefix [] and cycle [a, a].
C6_OneEntryPerCyclicRoot ==
    pc = "cycles_done" =>
        /\ \A root \in DOMAIN modules :
              Cardinality(EntriesFrom(root)) = IF CycleReachableFrom(root) THEN 1 ELSE 0
        /\ modules = GraphOf((ModA :> {ModB}) @@ (ModB :> {ModA})) =>
              cycles = << << <<>>, <<ModA, ModB, ModA>> >>, << <<>>, <<ModB, ModA, ModB>> >> >>
        /\ modules = GraphOf(ModA :> {ModA}) =>
              cycles = << << <<>>, <<ModA, ModA>> >> >>

NoDuplicates(s) == \A i, j \in 1..Len(s) : i # j => s[i] # s[j]

C10_EachKeyOnce ==
    /\ NoDuplicates(Prefix(trace, Len(trace) - 1))
    /\ pc = "walk" => NoDuplicates(trace)
    /\ \A i \in 1..Len(trace) : trace[i] \in DOMAIN modules
    /\ \A i \in 1..Len(stack) : stack[i].m \in DOMAIN modules

\* C10: detect_cycles terminates on every graph; a walk holds each key at most
\* once before it finishes or stops at the first revisit, and never enters a
\* module that is not a key.
C10_Terminates == []C10_EachKeyOnce /\ <>(pc = "cycles_done")

C10_Witness ==
    /\ pc = "cycles_done"
    /\ Len(cycles) >= 2
    /\ \E m \in DOMAIN modules : External \in modules[m]
    /\ ~(\A k \in DOMAIN modules : OnCycle(k))

----------------------------------------------------------------------------
(* Properties of prepare_graph (SpecGraph) *)

NodeObjects == {nodes[m][1] : m \in DOMAIN nodes}

\* the edges of self.uses_edges, as pairs of the keys of their nodes
EdgePairs ==
    {p \in (DOMAIN nodes) \X (DOMAIN nodes) :
        /\ nodes[p[1]][1] \in DOMAIN uses_edges
        /\ nodes[p[2]][1] \in uses_edges[nodes[p[1]][1]]}

EdgeEnds == DOMAIN uses_edges \cup UNION {uses_edges[n] : n \in DOMAIN uses_edges}

\* C5: prepare_graph makes one node per key, its edges are exactly the pairs
\* (m, d) with d in modules[m] and both keys, every edge end is a node, and
\* the assertions hold.
C5_EdgesBetweenKeys ==
    pc # "prepare_graph" =>
        /\ pc = "graph_done"
        /\ DOMAIN nodes = DOMAIN modules
        /\ \A m \in DOMAIN nodes : Len(nodes[m]) = 1 /\ get_name(nodes[m][1]) = m
        /\ EdgePairs = {p \in (DOMAIN modules) \X (DOMAIN modules) : p[2] \in modules[p[1]]}
        /\ EdgeEnds \subseteq NodeObjects

C5_Witness ==
    /\ pc = "graph_done"
    /\ Cardinality(EdgePairs) >= 2
    /\ \E m \in DOMAIN modules : External \in modules[m]
    /\ \E m \in DOMAIN modules : \E d \in modules[m] \cap DOMAIN fullpaths : d \notin DOMAIN modules

====
